---- MODULE Spec2Model ----
(***************************************************************************)
(* A model of the Frankfurter API client, src/lib/src/api/mod.rs:          *)
(* ServerClient (new, default, with_client, build_endpoint,                *)
(* is_server_available, get, convert, period, currencies) and the          *)
(* ServerClientRequest trait (setup).                                      *)
(*                                                                         *)
(* Strings are sequences of tokens.  Wherever the code looks at single     *)
(* characters ('/', '.', characters that get percent-encoded) a token is   *)
(* one character; a longer token ("USD", "amount") stands for a run of     *)
(* characters that no step of the code inspects or rewrites.               *)
(*                                                                         *)
(* A Url is a record: origin (scheme and authority, never changed by the   *)
(* code), cannot_be_a_base (url::Url::cannot_be_a_base), path (what        *)
(* Url::path() returns) and query (the list of key/value pairs, as         *)
(* serialised).                                                            *)
(***************************************************************************)
EXTENDS Naturals, Sequences, FiniteSets, TLC

VARIABLES clients, input, calls, panicked

vars == <<clients, input, calls, panicked>>

(***************************** bounds **************************************)
MaxClients == 2
MaxPathLen == 4
MaxEndpointLen == 2

\* the slots a client value can be bound to
ClientIds == 1..MaxClients

\* the futures a caller holds: two calls can be pending at the same time
CallIds == {"call_a", "call_b"}

(***************************** strings *************************************)
\* str::ends_with(char)
ends_with(s, c) == Len(s) > 0 /\ s[Len(s)] = c

\* str::starts_with(char) / strip_prefix
starts_with(s, c) == Len(s) > 0 /\ s[1] = c

\* the position (1-based) of the first c in s, 0 when there is none
find(s, c) ==
  IF \E i \in 1..Len(s) : s[i] = c
  THEN CHOOSE i \in 1..Len(s) : s[i] = c /\ \A j \in 1..(i - 1) : s[j] # c
  ELSE 0

\* str::rfind(char): the position (1-based) of the last c in s, 0 when none
rfind(s, c) ==
  IF \E i \in 1..Len(s) : s[i] = c
  THEN CHOOSE i \in 1..Len(s) : s[i] = c /\ \A j \in (i + 1)..Len(s) : s[j] # c
  ELSE 0

\* str::split('/'): the pieces between the separators, empty pieces kept
RECURSIVE split(_)
split(s) ==
  LET i == find(s, "/")
  IN IF i = 0 THEN <<s>>
     ELSE <<SubSeq(s, 1, i - 1)>> \o split(SubSeq(s, i + 1, Len(s)))

\* str::replace('/', "")
replace_slash(s) == SelectSeq(s, LAMBDA c : c # "/")

RECURSIVE concat(_)
concat(ss) == IF ss = <<>> THEN <<>> ELSE Head(ss) \o concat(Tail(ss))

(***************************** url::Url ************************************)
\* Url::path_segments() is Some exactly when the path starts with '/'
has_path_segments(u) == starts_with(u.path, "/")

\* Url::path_segments().unwrap(): path[1..].split('/')
path_segments(u) == split(Tail(u.path))

\* utf8_percent_encode(c, SPECIAL_PATH_SEGMENT): what PathSegmentsMut::push
\* writes for one character of the segment
percent_encode(c) ==
  CASE c = "/" -> <<"%", "2", "F">>
    [] c = "?" -> <<"%", "3", "F">>
    [] c = "%" -> <<"%", "2", "5">>
    [] OTHER -> <<c>>

\* PathSegmentsMut::pop on a path: nothing when only the first '/' is there,
\* else truncate at the last '/' after the first one (unwrap_or(0): at the
\* first one)
pop(path) ==
  IF 1 >= Len(path) THEN path
  ELSE LET last == rfind(Tail(path), "/")
           last_slash == IF last = 0 THEN 0 ELSE last - 1
       IN SubSeq(path, 1, 1 + last_slash)

\* PathSegmentsMut::push (extend with one segment) on a path: "." and ".."
\* are skipped; a '/' is written unless the path is exactly "/"; then the
\* segment is written percent-encoded
push(path, segment) ==
  IF segment = <<".">> \/ segment = <<".", ".">> THEN path
  ELSE (IF Len(path) > 1 \/ Len(path) = 0 THEN Append(path, "/") ELSE path)
       \o concat([i \in 1..Len(segment) |-> percent_encode(segment[i])])

\* Url::set_path("") on a URL that can be a base with a special scheme
set_path_empty(u) == [u EXCEPT !.path = <<"/">>]

\* form_urlencoded::byte_serialize for one character of a key or value
form_encode(c) ==
  CASE c = "," -> <<"%", "2", "C">>
    [] c = "/" -> <<"%", "2", "F">>
    [] c = " " -> <<"+">>
    [] OTHER -> <<c>>

form_encode_str(s) == concat([i \in 1..Len(s) |-> form_encode(s[i])])

\* (mutant) the pairs replace the URL's query
with_query_replaced(u, params) ==
  [u EXCEPT !.query =
     [i \in 1..Len(params) |->
        <<form_encode_str(params[i][1]), form_encode_str(params[i][2])>>]]

\* reqwest RequestBuilder::query(&params): the pairs are appended, encoded,
\* to the URL's query
with_query(u, params) ==
  [u EXCEPT !.query = u.query \o
     [i \in 1..Len(params) |->
        <<form_encode_str(params[i][1]), form_encode_str(params[i][2])>>]]

RECURSIVE query_string(_)
query_string(q) ==
  IF q = <<>> THEN <<>>
  ELSE Head(q)[1] \o <<"=">> \o Head(q)[2]
       \o (IF Tail(q) = <<>> THEN <<>> ELSE <<"&">> \o query_string(Tail(q)))

\* Url::to_string()
to_string(u) ==
  <<u.origin>> \o u.path
  \o (IF u.query = <<>> THEN <<>> ELSE <<"?">> \o query_string(u.query))

(***************************** inputs **************************************)
RECURSIVE StringsUpTo(_, _)
StringsUpTo(alphabet, n) ==
  IF n = 0 THEN {<<>>}
  ELSE LET shorter == StringsUpTo(alphabet, n - 1)
       IN shorter \cup {Append(s, c) : s \in shorter, c \in alphabet}

MkUrl(origin, path, query) ==
  [origin |-> origin, cannot_be_a_base |-> FALSE, path |-> path, query |-> query]

KeyQuery == << <<(<<"key">>), (<<"abc">>)>> >>

\* what Url::parse gives for https URLs: the path starts with '/'
HttpsUrls ==
  {MkUrl("https://example.com", <<"/">> \o p, q) :
     p \in StringsUpTo({"/", "a"}, MaxPathLen - 1), q \in {<<>>, KeyQuery}}

\* URLs that cannot be a base (data:a, data:a/): no path segments
OpaqueUrls ==
  {[origin |-> "data:", cannot_be_a_base |-> TRUE, path |-> p, query |-> <<>>] :
     p \in {<<"a">>, <<"a", "/">>}}

AllUrls == HttpsUrls \cup OpaqueUrls

NoClient == [none |-> TRUE]
NoUrl == [none |-> TRUE]
Handles == {"default", "custom"}

(***************************** ServerClient ********************************)
\* (mutant) an if in place of the while: one trailing '/' is removed
strip_trailing_once(u) ==
  IF ~ends_with(u.path, "/") THEN [panic |-> "none", url |-> u]
  ELSE IF ~has_path_segments(u) THEN [panic |-> "new:37", url |-> u]
  ELSE IF Len(path_segments(u)) # 1
       THEN [panic |-> "none", url |-> [u EXCEPT !.path = pop(u.path)]]
       ELSE [panic |-> "none", url |-> u]

\* the loop of new: pop while the path ends with '/' and there is more than
\* one segment.  path_segments().unwrap() panics when there are none.
RECURSIVE strip_trailing(_)
strip_trailing(u) ==
  IF ~ends_with(u.path, "/") THEN [panic |-> "none", url |-> u]
  ELSE IF ~has_path_segments(u) THEN [panic |-> "new:37", url |-> u]
  ELSE IF Len(path_segments(u)) # 1
       THEN IF u.cannot_be_a_base THEN [panic |-> "new:39", url |-> u]
            ELSE strip_trailing([u EXCEPT !.path = pop(u.path)])
       ELSE [panic |-> "none", url |-> u]

\* ServerClient::new up to the struct literal: the normalised URL, or the
\* place of the unwrap that panicked
new_url(u) ==
  LET s == strip_trailing(u)
  IN IF s.panic # "none" THEN s
     ELSE IF s.url.cannot_be_a_base THEN [panic |-> "new:43", url |-> s.url]
     ELSE [panic |-> "none", url |-> [s.url EXCEPT !.path = push(s.url.path, <<"v", "1">>)]]

\* Default::default(): Url::parse("https://api.frankfurter.dev/v1")
default_url == MkUrl("https://api.frankfurter.dev", <<"/", "v", "1">>, <<>>)

Init ==
  /\ clients = [c \in ClientIds |-> NoClient]
  /\ input = [c \in ClientIds |-> NoUrl]
  /\ calls = [k \in CallIds |-> [pc |-> "idle"]]
  /\ panicked = "none"

\* ServerClient::new(frankfurter_api_url), the result bound to slot c
New(c, u) ==
  /\ panicked = "none"
  /\ clients[c] = NoClient
  /\ LET r == new_url(u)
     IN IF r.panic # "none"
        THEN /\ panicked' = r.panic
             /\ UNCHANGED <<clients, input>>
        ELSE /\ clients' = [clients EXCEPT ![c] = [url |-> r.url, client |-> "default"]]
             /\ input' = [input EXCEPT ![c] = u]
             /\ UNCHANGED panicked
  /\ UNCHANGED calls

\* ServerClient::default(), the result bound to slot c
Default(c) ==
  /\ panicked = "none"
  /\ clients[c] = NoClient
  /\ clients' = [clients EXCEPT ![c] = [url |-> default_url, client |-> "default"]]
  /\ UNCHANGED <<input, calls, panicked>>

\* #[derive(Clone)]: clone() of the client in slot c, bound to slot d
Clone(c, d) ==
  /\ panicked = "none"
  /\ clients[c] # NoClient
  /\ clients[d] = NoClient
  /\ clients' = [clients EXCEPT ![d] = clients[c]]
  /\ input' = [input EXCEPT ![d] = input[c]]
  /\ UNCHANGED <<calls, panicked>>

\* a call that still borrows the client in slot c (&self of a pending future)
Borrowed(c) ==
  \E k \in CallIds : calls[k].pc \notin {"idle", "done"} /\ calls[k].client = c

\* the value with_client returns
with_client(self, client) == [self EXCEPT !.client = client]

\* (mutant) the handle is shared by the clones: all of them are rebound
WithClient_shared(c, h) ==
  /\ panicked = "none"
  /\ clients[c] # NoClient
  /\ ~Borrowed(c)
  /\ clients' = [d \in ClientIds |->
                   IF clients[d] # NoClient /\ clients[d].url = clients[c].url
                   THEN with_client(clients[d], h) ELSE clients[d]]
  /\ UNCHANGED <<input, calls, panicked>>

\* ServerClient::with_client(self, client): the client in slot c is moved
\* in (so nothing borrows it) and the result is bound to slot c again
WithClient(c, h) ==
  /\ panicked = "none"
  /\ clients[c] # NoClient
  /\ ~Borrowed(c)
  /\ clients' = [clients EXCEPT ![c] = with_client(clients[c], h)]
  /\ UNCHANGED <<input, calls, panicked>>

\* ServerClient::build_endpoint: expect() panics on a URL without segments
build_endpoint_panics(self) == self.url.cannot_be_a_base

\* (mutant) the endpoint is pushed as it is, its '/' kept
build_endpoint_raw(self, endpoint) ==
  [self.url EXCEPT !.path = push(self.url.path, endpoint)]

build_endpoint(self, endpoint) ==
  [self.url EXCEPT !.path = push(self.url.path, replace_slash(endpoint))]

(************************* ServerClientRequest *****************************)
\* A request value: its type (which operation takes it), what ensure_valid
\* returns ("none" for Ok), what get_url and build_query_params return.
ensure_valid(req) == req.err
get_url(req) == req.url
build_query_params(req) == req.params

\* (mutant) setup without the ensure_valid()? line
setup_unchecked(req) ==
  [ok |-> TRUE, endpoint |-> get_url(req), params |-> build_query_params(req)]

\* ServerClientRequest::setup
setup(req) ==
  IF ensure_valid(req) # "none"
  THEN [ok |-> FALSE, err |-> ensure_valid(req)]
  ELSE [ok |-> TRUE, endpoint |-> get_url(req), params |-> build_query_params(req)]

(***************************** transport ***********************************)
\* (mutant) everything that is not an error status counts as success
is_not_error(status) == status < 400

\* StatusCode::is_success
is_success(status) == status \in 200..299

\* (mutant) only client errors are reported
is_client_error(status) == status \in 400..499

\* Response::error_for_status_ref is Err: a client or a server error status
is_error_status(status) == status \in 400..599

\* serde: the body deserialises into the response shape of the operation.
\* A body text names the shape its JSON has ("" is an empty body).
deserialize(type, text) == text = type

(***************************** dispatch ************************************)
\* ServerClient::get up to the first await: setup, build the URL, send
get(k, c, req) ==
  /\ panicked = "none"
  /\ calls[k].pc = "idle"
  /\ clients[c] # NoClient
  /\ LET s == setup(req)
     IN IF ~s.ok
        THEN /\ calls' = [calls EXCEPT ![k] =
                  [pc |-> "done", op |-> req.type, client |-> c, req |-> req,
                   self |-> clients[c], gets |-> <<>>, events |-> <<>>,
                   result |-> [kind |-> "Validation", err |-> s.err]]]
             /\ UNCHANGED panicked
        ELSE IF build_endpoint_panics(clients[c])
        THEN /\ panicked' = "build_endpoint:63"
             /\ UNCHANGED calls
        ELSE /\ calls' = [calls EXCEPT ![k] =
                  [pc |-> "send", op |-> req.type, client |-> c, req |-> req,
                   self |-> clients[c], endpoint |-> s.endpoint, params |-> s.params,
                   gets |-> <<[handle |-> clients[c].client,
                               url |-> with_query(build_endpoint(clients[c], s.endpoint),
                                                  s.params)]>>,
                   events |-> <<"send">>]]
             /\ UNCHANGED panicked
  /\ UNCHANGED <<clients, input>>

\* ServerClient::convert
Convert(k, c, req) == req.type = "convert" /\ get(k, c, req)

\* ServerClient::period
Period(k, c, req) == req.type = "period" /\ get(k, c, req)

\* ServerClient::currencies
Currencies(k, c, req) == req.type = "currencies" /\ get(k, c, req)

\* (mutant) a failed send is tried again
GetSent_retry(k, o) ==
  /\ panicked = "none"
  /\ calls[k].pc = "send"
  /\ calls' = [calls EXCEPT ![k] =
       IF o.kind = "err"
       THEN [@ EXCEPT !.gets = Append(@, @[1]), !.events = @ \o <<"error", "send">>]
       ELSE IF is_error_status(o.status)
       THEN [@ EXCEPT !.pc = "text", !.events = Append(@, "response")]
              @@ [sent |-> o, status |-> o.status]
       ELSE [@ EXCEPT !.pc = "json", !.events = Append(@, "response")]
              @@ [sent |-> o, status |-> o.status]]
  /\ UNCHANGED <<clients, input, panicked>>

\* get, line 93: send().await returns o, an error or a response with a status
GetSent(k, o) ==
  /\ panicked = "none"
  /\ calls[k].pc = "send"
  /\ calls' = [calls EXCEPT ![k] =
       IF o.kind = "err"
       THEN [@ EXCEPT !.pc = "done", !.events = Append(@, "error")]
              @@ [sent |-> o, result |-> [kind |-> "Transport", cause |-> o.err]]
       ELSE IF is_error_status(o.status)
       THEN [@ EXCEPT !.pc = "text", !.events = Append(@, "response")]
              @@ [sent |-> o, status |-> o.status]
       ELSE [@ EXCEPT !.pc = "json", !.events = Append(@, "response")]
              @@ [sent |-> o, status |-> o.status]]
  /\ UNCHANGED <<clients, input, panicked>>

\* get, lines 97-101: resp.text().await returns b; InvalidResponse is built
GetText(k, b) ==
  /\ panicked = "none"
  /\ calls[k].pc = "text"
  /\ calls' = [calls EXCEPT ![k] =
       [@ EXCEPT !.pc = "done", !.events = Append(@, "text")]
         @@ [read |-> b, result |->
               [kind |-> "InvalidResponse",
                status |-> calls[k].status,
                body |-> IF b.ok THEN b.text ELSE "",
                url |-> to_string(build_endpoint(clients[calls[k].client],
                                                 calls[k].endpoint))]]]
  /\ UNCHANGED <<clients, input, panicked>>

\* get, line 104: resp.json::<Resp>().await returns
GetJson(k, b) ==
  /\ panicked = "none"
  /\ calls[k].pc = "json"
  /\ calls' = [calls EXCEPT ![k] =
       [@ EXCEPT !.pc = "done", !.events = Append(@, "json")]
         @@ [read |-> b, result |->
               IF ~b.ok THEN [kind |-> "Transport", cause |-> "body"]
               ELSE IF deserialize(calls[k].op, b.text)
               THEN [kind |-> "Ok", value |-> b.text]
               ELSE [kind |-> "Transport", cause |-> "decode"]]]
  /\ UNCHANGED <<clients, input, panicked>>

\* ServerClient::is_server_available up to the await: GET of the URL with
\* its path cleared
IsServerAvailable(k, c) ==
  /\ panicked = "none"
  /\ calls[k].pc = "idle"
  /\ clients[c] # NoClient
  /\ calls' = [calls EXCEPT ![k] =
       [pc |-> "avail", op |-> "is_server_available", client |-> c,
        self |-> clients[c], gets |-> <<[handle |-> clients[c].client,
                    url |-> set_path_empty(clients[c].url)]>>,
        events |-> <<"send">>]]
  /\ UNCHANGED <<clients, input, panicked>>

\* is_server_available, lines 78-79: send().await returns o
AvailSent(k, o) ==
  /\ panicked = "none"
  /\ calls[k].pc = "avail"
  /\ calls' = [calls EXCEPT ![k] =
       [@ EXCEPT !.pc = "done", !.events = Append(@, IF o.kind = "err" THEN "error" ELSE "response")]
         @@ [sent |-> o, result |-> [kind |-> "Bool",
                         value |-> o.kind = "status" /\ is_success(o.status)]]]
  /\ UNCHANGED <<clients, input, panicked>>

(***************************** more inputs *********************************)
Types == {"convert", "period", "currencies"}

Tok(s) == <<s>>

ExampleParams ==
  << <<Tok("amount"), Tok("10")>>, <<Tok("from"), Tok("USD")>>, <<Tok("to"), Tok("EUR")>> >>

ListParams == << <<Tok("base"), Tok("USD")>>, <<Tok("symbols"), <<"EUR", ",", "GBP">> >> >>

MkReq(type, err, url, params) ==
  [type |-> type, err |-> err, url |-> url, params |-> params]

ExampleRequest == MkReq("convert", "none", Tok("latest"), ExampleParams)

EndpointChars == {"/", ".", "a", "?"}

FewRequests ==
  {ExampleRequest,
   MkReq("period", "invalid", <<"a", "/", ".", ".">>, ListParams),
   MkReq("period", "none", <<"a", ".", ".">>, ListParams),
   MkReq("currencies", "none", Tok("currencies"), <<>>)}

\* one request of each type for the concurrent runs
ConcRequests ==
  {ExampleRequest,
   MkReq("period", "invalid", <<"a", "/", ".", ".">>, ListParams),
   MkReq("currencies", "invalid", Tok("currencies"), <<>>)}

Requests ==
  {MkReq("convert", e, ep, p) :
     e \in {"none", "invalid"},
     ep \in StringsUpTo(EndpointChars, MaxEndpointLen), p \in {<<>>, ListParams}}
  \cup FewRequests

Err(e) == [kind |-> "err", err |-> e]
Status(s) == [kind |-> "status", status |-> s]

SendOutcomes ==
  {Err("connect"), Err("timeout")} \cup {Status(s) : s \in {200, 304, 404, 500}}

FewSendOutcomes == {Err("connect"), Status(200), Status(404)}

BodyReads ==
  {[ok |-> FALSE]} \cup {[ok |-> TRUE, text |-> t] : t \in {"", "convert", "currencies"}}

FewBodyReads == {[ok |-> TRUE, text |-> "convert"]}

ExampleUrl == MkUrl("https://example.com", <<"/", "a", "p", "i", "/">>, <<>>)

OpaqueUrl ==
  [origin |-> "data:", cannot_be_a_base |-> TRUE, path |-> <<"a">>, query |-> <<>>]

FewUrls == {ExampleUrl, MkUrl("https://example.com", <<"/">>, KeyQuery), OpaqueUrl}

(***************************** specifications ******************************)
\* construction alone, over every URL of AllUrls
NextNew ==
  \/ \E c \in ClientIds, u \in AllUrls : New(c, u)
  \/ \E c \in ClientIds : Default(c)

SpecNew == Init /\ [][NextNew]_vars

\* one client, one call at a time in slot 1, over every request and outcome
Next ==
  \/ \E u \in FewUrls : New(1, u)
  \/ Default(1)
  \/ \E h \in Handles : WithClient(1, h)
  \/ \E req \in Requests : Convert("call_a", 1, req)
  \/ \E req \in Requests : Period("call_a", 1, req)
  \/ \E req \in Requests : Currencies("call_a", 1, req)
  \/ \E o \in SendOutcomes : GetSent("call_a", o)
  \/ \E b \in BodyReads : GetText("call_a", b)
  \/ \E b \in BodyReads : GetJson("call_a", b)
  \/ IsServerAvailable("call_a", 1)
  \/ \E o \in SendOutcomes : AvailSent("call_a", o)

Spec == Init /\ [][Next]_vars

\* clients, clones and concurrent calls, over a few requests and outcomes
NextConc ==
  \/ \E c \in ClientIds, u \in {ExampleUrl, OpaqueUrl} : New(c, u)
  \/ \E c \in ClientIds : Default(c)
  \/ \E c, d \in ClientIds : Clone(c, d)
  \/ \E c \in ClientIds, h \in Handles : WithClient(c, h)
  \/ \E k \in CallIds, c \in ClientIds, req \in ConcRequests : Convert(k, c, req)
  \/ \E k \in CallIds, c \in ClientIds, req \in ConcRequests : Period(k, c, req)
  \/ \E k \in CallIds, c \in ClientIds, req \in ConcRequests : Currencies(k, c, req)
  \/ \E k \in CallIds, o \in FewSendOutcomes : GetSent(k, o)
  \/ \E k \in CallIds, b \in FewBodyReads : GetText(k, b)
  \/ \E k \in CallIds, b \in FewBodyReads : GetJson(k, b)
  \/ \E k \in CallIds, c \in ClientIds : IsServerAvailable(k, c)
  \/ \E k \in CallIds, o \in FewSendOutcomes : AvailSent(k, o)

SpecConc == Init /\ [][NextConc]_vars

(***************************** claims **************************************)
Created(c) == clients[c] # NoClient /\ input[c] # NoUrl

\* a string without its trailing '/' characters
RECURSIVE TrimSlashes(_)
TrimSlashes(s) ==
  IF s # <<>> /\ s[Len(s)] = "/" THEN TrimSlashes(SubSeq(s, 1, Len(s) - 1)) ELSE s

\* a list of segments without its trailing empty segments
RECURSIVE TrimEmpty(_)
TrimEmpty(segs) ==
  IF segs # <<>> /\ segs[Len(segs)] = <<>>
  THEN TrimEmpty(SubSeq(segs, 1, Len(segs) - 1)) ELSE segs

SameButTrailingSlashes(u, w) ==
  /\ u.origin = w.origin
  /\ u.query = w.query
  /\ TrimSlashes(u.path) = TrimSlashes(w.path)

\* C1: new is invariant under trailing slashes.  Two clients built from URLs
\* that differ only in the number of trailing '/' hold the same base URL;
\* its path segments are the input's segments without the trailing empty
\* ones followed by one "v1" segment, it does not end with '/', no empty
\* segment stands before "v1", and origin and query are the input's.
C1_TrailingSlashInvariant ==
  /\ \A c \in ClientIds :
       Created(c) =>
         LET in == input[c]
             out == clients[c].url
             segs == path_segments(out)
         IN /\ segs = TrimEmpty(path_segments(in)) \o << <<"v", "1">> >>
            /\ ~ends_with(out.path, "/")
            /\ Len(segs) >= 2 => segs[Len(segs) - 1] # <<>>
            /\ out.origin = in.origin /\ out.query = in.query
  /\ \A c, d \in ClientIds :
       Created(c) /\ Created(d) /\ SameButTrailingSlashes(input[c], input[d])
         => clients[c].url = clients[d].url

\* two clients, one built from /a and one from /a//
C1_Witness ==
  \E c, d \in ClientIds :
    /\ Created(c) /\ Created(d)
    /\ input[c].path = <<"/", "a">>
    /\ input[d].path = <<"/", "a", "/", "/">>
    /\ clients[c].url.path = <<"/", "a", "/", "v", "1">>

\* C4: no panic is reachable through new, with_client, is_server_available,
\* convert, period and currencies, for any URL, request and transport outcome.
C4_NoPanic == panicked = "none"

IsGet(k) == calls[k].pc # "idle" /\ calls[k].op # "is_server_available"
IsAvail(k) == calls[k].pc # "idle" /\ calls[k].op = "is_server_available"
Has(k, f) == f \in DOMAIN calls[k]

\* C2: a request whose ensure_valid fails gets that error back, whatever its
\* path and parameters are, and the call issues no GET.
C2_InvalidRequestNoGet ==
  \A k \in CallIds :
    IsGet(k) /\ calls[k].req.err # "none" =>
      /\ calls[k].pc = "done"
      /\ calls[k].result = [kind |-> "Validation", err |-> calls[k].req.err]
      /\ calls[k].gets = <<>>
      /\ calls[k].events = <<>>

C2_Witness ==
  \E k \in CallIds :
    /\ IsGet(k) /\ calls[k].pc = "done"
    /\ calls[k].req.err = "invalid"
    /\ calls[k].req.params # <<>>
    /\ calls[k].req.url = <<"a", "/">>
    /\ calls[k].result.kind = "Validation"

\* C5: is_server_available issues one GET, to the root of the client's host
\* (the base URL with the path cleared, not the /v1 path), returns a boolean
\* and never panics; the boolean is true exactly when a response came back
\* and its status is a success status.
C5_AvailableIffSuccess ==
  \A k \in CallIds :
    IsAvail(k) =>
      /\ Len(calls[k].gets) = 1
      /\ calls[k].gets[1].url.origin = calls[k].self.url.origin
      /\ calls[k].gets[1].url.path = <<"/">>
      /\ calls[k].gets[1].url.path # calls[k].self.url.path
      /\ calls[k].gets[1].handle = calls[k].self.client
      /\ panicked = "none"
      /\ calls[k].pc = "done" =>
           /\ calls[k].result.kind = "Bool"
           /\ calls[k].result.value =
                (calls[k].sent.kind = "status" /\ calls[k].sent.status \in 200..299)

\* a probe answered with 404 returned false
C5_Witness ==
  \E k \in CallIds :
    /\ IsAvail(k) /\ calls[k].pc = "done"
    /\ calls[k].sent = Status(404)
    /\ calls[k].result.value = FALSE

\* what a %XX escape stands for
Unescape(h) ==
  CASE h = <<"2", "F">> -> "/"
    [] h = <<"3", "F">> -> "?"
    [] h = <<"2", "5">> -> "%"
    [] h = <<"2", "C">> -> ","
    [] OTHER -> "invalid"

\* percent-decoding (with '+' for a space when form is TRUE)
RECURSIVE Decode(_, _)
Decode(s, form) ==
  IF s = <<>> THEN <<>>
  ELSE IF s[1] = "%" /\ Len(s) >= 3
       THEN <<Unescape(<<s[2], s[3]>>)>> \o Decode(SubSeq(s, 4, Len(s)), form)
  ELSE IF form /\ s[1] = "+" THEN <<" ">> \o Decode(Tail(s), form)
  ELSE <<s[1]>> \o Decode(Tail(s), form)

\* a string without its '/' characters
RECURSIVE NoSlash(_)
NoSlash(s) ==
  IF s = <<>> THEN <<>>
  ELSE (IF Head(s) = "/" THEN <<>> ELSE <<Head(s)>>) \o NoSlash(Tail(s))

Dots == {<<".">>, <<".", ".">>}

Dispatched(k) == IsGet(k) /\ calls[k].gets # <<>>

DecodedPairs(q) == [i \in 1..Len(q) |-> <<Decode(q[i][1], TRUE), Decode(q[i][2], TRUE)>>]

\* C6 as stated: the GET goes to the base URL + '/' + the get_url path
\* (compared decoded), and the query parameters it attaches are exactly the
\* build_query_params pairs.
C6_ExactComposition ==
  \A k \in CallIds :
    Dispatched(k) =>
      LET g == calls[k].gets[1].url
          base == calls[k].self.url
          n == Len(base.path)
      IN /\ g.origin = base.origin
         /\ Len(g.path) >= n + 1
         /\ SubSeq(g.path, 1, n + 1) = base.path \o <<"/">>
         /\ Decode(SubSeq(g.path, n + 2, Len(g.path)), FALSE) = calls[k].req.url
         /\ DecodedPairs(SubSeq(g.query, Len(base.query) + 1, Len(g.query)))
              = calls[k].req.params

ExampleText ==
  <<"https://example.com", "/", "a", "p", "i", "/", "v", "1", "/", "latest",
    "?", "amount", "=", "10", "&", "from", "=", "USD", "&", "to", "=", "EUR">>

\* C6, amended: the GET goes to the base URL + '/' + the percent-encoded
\* get_url path without its '/' characters (to the base URL itself when that
\* is "." or ".."); its query is the base URL's own query followed by the
\* build_query_params pairs, form-encoded, in order.  new(https://example.com/api/)
\* and [amount=10, from=USD, to=EUR] on "latest" give
\* https://example.com/api/v1/latest?amount=10&from=USD&to=EUR.
C6_Composition ==
  \A k \in CallIds :
    Dispatched(k) =>
      LET g == calls[k].gets[1].url
          base == calls[k].self.url
          stripped == NoSlash(calls[k].req.url)
          params == calls[k].req.params
          n == Len(base.path)
      IN /\ g.origin = base.origin
         /\ IF stripped \in Dots THEN g.path = base.path
            ELSE /\ Len(g.path) >= n + 1
                 /\ SubSeq(g.path, 1, n + 1) = base.path \o <<"/">>
                 /\ Decode(SubSeq(g.path, n + 2, Len(g.path)), FALSE) = stripped
         /\ Len(g.query) = Len(base.query) + Len(params)
         /\ SubSeq(g.query, 1, Len(base.query)) = base.query
         /\ DecodedPairs(SubSeq(g.query, Len(base.query) + 1, Len(g.query))) = params
         /\ (input[calls[k].client] = ExampleUrl /\ calls[k].req = ExampleRequest)
              => to_string(g) = ExampleText

\* the example request was sent by a client built from https://example.com/api/
C6_Witness ==
  \E k \in CallIds :
    /\ Dispatched(k)
    /\ input[calls[k].client] = ExampleUrl
    /\ calls[k].req = ExampleRequest
    /\ to_string(calls[k].gets[1].url) = ExampleText

\* C10 as stated: whatever get_url returns ('/' inside, "", "." and ".."
\* included), the built URL has the base URL's segments followed by exactly
\* one more, the endpoint without its '/', and the client's URL is untouched.
C10_OneSegmentAlways ==
  \A k \in CallIds :
    Dispatched(k) =>
      LET segs == path_segments(calls[k].gets[1].url)
          bsegs == path_segments(calls[k].self.url)
      IN /\ Len(segs) = Len(bsegs) + 1
         /\ SubSeq(segs, 1, Len(bsegs)) = bsegs
         /\ Decode(segs[Len(segs)], FALSE) = NoSlash(calls[k].req.url)
         /\ clients[calls[k].client].url = calls[k].self.url

\* C10, amended: the built URL has the base URL's segments followed by at
\* most one more segment: none when the endpoint without its '/' is "." or
\* "..", else exactly one, which is that string percent-encoded (so without
\* any '/'); the client's URL is untouched.
C10_AtMostOneSegment ==
  \A k \in CallIds :
    Dispatched(k) =>
      LET segs == path_segments(calls[k].gets[1].url)
          bsegs == path_segments(calls[k].self.url)
          stripped == NoSlash(calls[k].req.url)
      IN /\ IF stripped \in Dots THEN segs = bsegs
            ELSE /\ Len(segs) = Len(bsegs) + 1
                 /\ SubSeq(segs, 1, Len(bsegs)) = bsegs
                 /\ Decode(segs[Len(segs)], FALSE) = stripped
         /\ clients[calls[k].client].url = calls[k].self.url

\* the endpoint "/." was dispatched: no segment was added
C10_Witness ==
  \E k \in CallIds :
    /\ Dispatched(k)
    /\ calls[k].req.url = <<"/", ".">>
    /\ calls[k].gets[1].url.path = calls[k].self.url.path

Answered(k) ==
  IsGet(k) /\ calls[k].pc = "done" /\ Has(k, "sent") /\ calls[k].sent.kind = "status"

\* C3, for the statuses the code reports (client and server errors): the
\* call returns InvalidResponse with the response's status, the body text
\* ("" when it cannot be read) and the URL the GET was issued against,
\* query included.
C3_ErrorCarriesRequestedUrl ==
  \A k \in CallIds :
    Answered(k) /\ calls[k].sent.status \in 400..599 =>
      /\ calls[k].result.kind = "InvalidResponse"
      /\ calls[k].result.status = calls[k].sent.status
      /\ calls[k].result.body = (IF calls[k].read.ok THEN calls[k].read.text ELSE "")
      /\ calls[k].result.url = to_string(calls[k].gets[1].url)

C8_SingleGet ==
  \A k \in CallIds :
    IsGet(k) =>
      /\ Len(calls[k].gets) = (IF calls[k].req.err = "none" THEN 1 ELSE 0)
      /\ calls[k].events \in
           {<<>>, <<"send">>, <<"send", "error">>, <<"send", "response">>,
            <<"send", "response", "text">>, <<"send", "response", "json">>}
      /\ calls[k].events = <<>> <=> calls[k].req.err # "none"
      /\ calls[k].pc = "done" /\ calls[k].req.err = "none" =>
           calls[k].events[Len(calls[k].events)] \in {"error", "text", "json"}

\* a connection error ended the call after its one GET
C8_Witness ==
  \E k \in CallIds :
    /\ IsGet(k) /\ calls[k].pc = "done"
    /\ calls[k].result = [kind |-> "Transport", cause |-> "connect"]
    /\ Len(calls[k].gets) = 1

\* C9: a client's configuration is fixed once built.  In every step: no
\* existing client's base URL changes; a step that changes one client's
\* handle (with_client) leaves every other client as it was; a step of a
\* call changes no client; afterwards every pending call's client is as it
\* was when the call started, its GET went through that client's handle,
\* and two calls of the same request on clients with the same base URL have
\* built the same URL.
C9_ConfigurationFixed ==
  [][/\ \A c \in ClientIds :
          clients[c] # NoClient =>
            /\ clients'[c] # NoClient
            /\ clients'[c].url = clients[c].url
            /\ clients'[c].client # clients[c].client =>
                 \A d \in ClientIds \ {c} : clients'[d] = clients[d]
     /\ calls' # calls => clients' = clients
     /\ \A k \in CallIds :
          calls'[k].pc \notin {"idle", "done"} =>
            clients'[calls'[k].client] = calls'[k].self
     /\ \A k \in CallIds :
          (calls'[k].pc # "idle" /\ calls'[k].gets # <<>>) =>
            calls'[k].gets[1].handle = calls'[k].self.client
     /\ \A k, j \in CallIds :
          (/\ calls'[k].pc # "idle" /\ calls'[j].pc # "idle"
           /\ calls'[k].op = calls'[j].op
           /\ calls'[k].op # "is_server_available"
           /\ calls'[k].req = calls'[j].req
           /\ calls'[k].self.url = calls'[j].self.url)
            => calls'[k].gets = [i \in DOMAIN calls'[k].gets |->
                                   [calls'[j].gets[i] EXCEPT !.handle = calls'[k].self.client]]
    ]_vars

\* two calls are pending, one on a client rebound with with_client and one
\* on its clone, which still has the default handle
C9_Witness ==
  \E c, d \in ClientIds :
    /\ clients[c] # NoClient /\ clients[d] # NoClient
    /\ clients[c].url = clients[d].url
    /\ clients[c].client = "custom" /\ clients[d].client = "default"
    /\ calls["call_a"].pc = "send" /\ calls["call_a"].client = c
    /\ calls["call_b"].pc = "send" /\ calls["call_b"].client = d
====
